---- MODULE Spec2Model ----
(***************************************************************************)
(* Model of the nexus message pipeline.                                    *)
(*                                                                         *)
(* Server side: MessageUtils (sendMessage, fetchMessage,                   *)
(* deleteReceivedMessages) over the `message` table, with the contact and  *)
(* block records it reads through the Utils helpers.                       *)
(*                                                                         *)
(* sendMessage is an async function: every `await` is a point where other  *)
(* requests run, so it is modelled as one action per awaited query.  The   *)
(* lookups of the users table are folded into the first step because the   *)
(* set of users is fixed in this model.  MessageUtils calls are served one *)
(* at a time and a response is handed to its caller before the next step;  *)
(* the contact workflow acts between the awaits of a call.  A query on     *)
(* dbSession either succeeds or throws.                                    *)
(*                                                                         *)
(* Relay: the channels of the push relay and the new_message notification  *)
(* the send route emits.                                                   *)
(*                                                                         *)
(* Client side: WebSocketService (its sockets, their events and the        *)
(* message handlers) and the page loads of ChatPanel.  A socket that was   *)
(* not disconnected keeps its listeners and reconnects by itself.          *)
(***************************************************************************)
EXTENDS Integers, Sequences, FiniteSets, TLC

\* ------------------------------------------------------------------------
\* Bounds of the model
\* ------------------------------------------------------------------------
\* Number of ids the mid sequence hands out.
MaxMid == 2

\* Rows of the users table.
ExistingUsers == {1, 2, 3}
\* User ids given to the operations: 0 is not a valid id, 4 is valid but
\* is no row of the users table.
Uids == {0, 1, 2, 3, 4}
\* Pairs of users the contact workflow acts on.
ContactPairs == {{1, 2}, {2, 3}}
Contents == {"hello"}
Nonces == {"n1"}

\* Number of Socket objects the client creates with io().
MaxSockets == 3
\* Length of the messageHandlers array.
MaxHandlers == 2
\* Handler functions given to onNewMessage.
Handlers == {"h1", "h2"}
\* User ids given to connect() and returned by storageService.getUser().
ClientUsers == {1, 2}
Tokens == {"jwt"}
\* Connections the relay holds in the specification of the relay alone.
RelayConns == {1, 2}

\* Number of loadPaginatedMessages calls in flight at once.
MaxLoads == 2
\* Number of pages storageService reports for a conversation.
MaxPages == 2
\* Length of the visible history.
MaxHistory == 2
\* Message ids of the conversation the local cache holds.
MaxCacheMid == 3
\* Number of times one pulled batch is merged.
MaxMerges == 2
\* Contacts whose conversation the panel shows.
PanelContacts == {2, 3}

VARIABLES
    contacts,   \* relationship records: a set of unordered pairs {a, b}
    blocks,     \* <<a, b>> \in blocks: a has blocked b
    mailbox,    \* rows of the message table
    nextMid,    \* next value of the mid sequence
    clock,      \* server clock at the last insert (message.timestamp default)
    issued,     \* history: every mid handed out, with sender and receiver
    snd,        \* the sendMessage call in flight and the await it is at
    resp,       \* response on its way to the caller
    \* the push relay
    rooms,      \* <<k, uid>> \in rooms: connection k has joined channel uid
    pushed,     \* the new_message notification being emitted
    \* WebSocketService of one client
    socket,          \* this.socket: a socket of `sockets`, or NoSocket
    sockets,         \* every Socket object io() has returned
    messageHandlers, \* this.messageHandlers
    currentUserId,   \* this.currentUserId, NoUser for null
    isConnecting,    \* this.isConnecting
    storedUser,      \* storageService.getUser()?.uid, NoUser for none
    handled,         \* handler calls made for the notification `pushed`
    \* ChatPanel of one client and the MessageStore fields it reads
    mounted,               \* onMounted has run
    contact,               \* props.contact.contactUserId
    visible,               \* props.visible
    showChat,              \* showChat.value
    isLoadingMoreMessages, \* isLoadingMoreMessages.value
    inflight,              \* loadPaginatedMessages calls not yet settled
    pendingInit,           \* initMessagePagination calls awaiting storage
    totalMessagePages,     \* messageStore.totalMessagePages
    currentMessagePage,    \* messageStore.currentMessagePage
    storeMessages,         \* messageStore.messages, the visible history
    compacted,             \* the optimizeMessageStorage call of the last step
    \* the local cache of one conversation
    cache,      \* ids of the messages stored, in stored order
    pulled,     \* the batch last pulled from the mailbox
    merges      \* how often `pulled` has been merged into the cache

serverVars == <<contacts, blocks, mailbox, nextMid, clock, issued, snd, resp>>
relayVars == <<rooms, pushed>>
wsVars == <<socket, sockets, messageHandlers, currentUserId, isConnecting,
            storedUser, handled>>
cacheVars == <<cache, pulled, merges>>
panelVars == <<mounted, contact, visible, showChat, isLoadingMoreMessages,
               inflight, pendingInit, totalMessagePages, currentMessagePage,
               storeMessages, compacted, cacheVars>>
clientVars == <<relayVars, wsVars, panelVars>>
vars == <<serverVars, clientVars>>

\* ------------------------------------------------------------------------
\* Responses
\* ------------------------------------------------------------------------
NoResp == [op |-> "none"]

createErrorResponse(op, statusCode, message) ==
    [op |-> op, success |-> FALSE, statusCode |-> statusCode, message |-> message]

createSuccessResponse(op, data) ==
    [op |-> op, success |-> TRUE, statusCode |-> "OK", data |-> data]

\* The previous response has reached its caller.
Ready == resp = NoResp

\* ------------------------------------------------------------------------
\* Helpers of Utils
\* ------------------------------------------------------------------------
isValidUserId(uid) == uid > 0

userExists(uid) == uid \in ExistingUsers

hasContactWith(a, b) == {a, b} \in contacts

\* canSendMessage looking at the receiver's block first.
canSendMessage_ReceiverFirst(sender_uid, receiver_uid) ==
    IF {sender_uid, receiver_uid} \notin contacts
    THEN [canSend |-> FALSE, reason |-> "not_contacts"]
    ELSE IF <<receiver_uid, sender_uid>> \in blocks
    THEN [canSend |-> FALSE, reason |-> "user_blocked"]
    ELSE IF <<sender_uid, receiver_uid>> \in blocks
    THEN [canSend |-> FALSE, reason |-> "you_blocked"]
    ELSE [canSend |-> TRUE, reason |-> "none"]

canSendMessage(sender_uid, receiver_uid) ==
    IF {sender_uid, receiver_uid} \notin contacts
    THEN [canSend |-> FALSE, reason |-> "not_contacts"]
    ELSE IF <<sender_uid, receiver_uid>> \in blocks
    THEN [canSend |-> FALSE, reason |-> "you_blocked"]
    ELSE IF <<receiver_uid, sender_uid>> \in blocks
    THEN [canSend |-> FALSE, reason |-> "user_blocked"]
    ELSE [canSend |-> TRUE, reason |-> "none"]

\* ------------------------------------------------------------------------
\* sendMessage
\* ------------------------------------------------------------------------
Idle == [pc |-> "idle", sender_uid |-> 0, receiver_uid |-> 0,
         content |-> "", nonce |-> ""]

\* SendArgCheck without the self-send check.
SendArgCheck_NoSelf(sender_uid, receiver_uid) ==
    IF ~isValidUserId(sender_uid) \/ ~isValidUserId(receiver_uid)
    THEN createErrorResponse("send", "BAD_REQUEST", "Invalid UID")
    ELSE IF ~userExists(sender_uid) \/ ~userExists(receiver_uid)
    THEN createErrorResponse("send", "NOT_FOUND", "User not found")
    ELSE NoResp

\* SendArgCheck with the self-send check first.
SendArgCheck_SelfFirst(sender_uid, receiver_uid) ==
    IF sender_uid = receiver_uid
    THEN createErrorResponse("send", "BAD_REQUEST", "Cannot send message to self")
    ELSE IF ~isValidUserId(sender_uid) \/ ~isValidUserId(receiver_uid)
    THEN createErrorResponse("send", "BAD_REQUEST", "Invalid UID")
    ELSE IF ~userExists(sender_uid) \/ ~userExists(receiver_uid)
    THEN createErrorResponse("send", "NOT_FOUND", "User not found")
    ELSE NoResp

\* Lines 67-86: the checks that read the arguments and the users table.
SendArgCheck(sender_uid, receiver_uid) ==
    IF ~isValidUserId(sender_uid) \/ ~isValidUserId(receiver_uid)
    THEN createErrorResponse("send", "BAD_REQUEST", "Invalid UID")
    ELSE IF ~userExists(sender_uid) \/ ~userExists(receiver_uid)
    THEN createErrorResponse("send", "NOT_FOUND", "User not found")
    ELSE IF sender_uid = receiver_uid
    THEN createErrorResponse("send", "BAD_REQUEST", "Cannot send message to self")
    ELSE NoResp

\* PermissionError with the two block messages exchanged.
PermissionError_Swapped(messagePermission) ==
    IF messagePermission.reason = "you_blocked"
    THEN createErrorResponse("send", "FORBIDDEN",
                             "Cannot message user, user has blocked you")
    ELSE IF messagePermission.reason = "user_blocked"
    THEN createErrorResponse("send", "FORBIDDEN",
                             "Cannot message, you have blocked this user")
    ELSE createErrorResponse("send", "FORBIDDEN",
                             "Cannot send message to this user")

\* Lines 96-113: the response for a refused permission.
PermissionError(messagePermission) ==
    IF messagePermission.reason = "you_blocked"
    THEN createErrorResponse("send", "FORBIDDEN",
                             "Cannot message, you have blocked this user")
    ELSE IF messagePermission.reason = "user_blocked"
    THEN createErrorResponse("send", "FORBIDDEN",
                             "Cannot message user, user has blocked you")
    ELSE createErrorResponse("send", "FORBIDDEN",
                             "Cannot send message to this user")

\* InsertedRow with a constant mid instead of the value of the sequence.
InsertedRow_MidOne(mid, timestamp, sender_uid, receiver_uid, content, nonce) ==
    [mid |-> 1, sender_uid |-> sender_uid, receiver_uid |-> receiver_uid,
     content |-> content, nonce |-> nonce, timestamp |-> timestamp]

\* InsertedRow with the sender bound to both user columns.
InsertedRow_SenderTwice(mid, timestamp, sender_uid, receiver_uid, content, nonce) ==
    [mid |-> mid, sender_uid |-> sender_uid, receiver_uid |-> sender_uid,
     content |-> content, nonce |-> nonce, timestamp |-> timestamp]

\* InsertedRow with the user parameters bound in the wrong order.
InsertedRow_SwapUsers(mid, timestamp, sender_uid, receiver_uid, content, nonce) ==
    [mid |-> mid, sender_uid |-> receiver_uid, receiver_uid |-> sender_uid,
     content |-> content, nonce |-> nonce, timestamp |-> timestamp]

\* Lines 116-121: the row INSERT ... RETURNING yields; mid comes from the
\* sequence and timestamp from the column default.
InsertedRow(mid, timestamp, sender_uid, receiver_uid, content, nonce) ==
    [mid |-> mid, sender_uid |-> sender_uid, receiver_uid |-> receiver_uid,
     content |-> content, nonce |-> nonce, timestamp |-> timestamp]

SendCall(sender_uid, receiver_uid, content, nonce) ==
    /\ Ready
    /\ snd.pc = "idle"
    /\ LET err == SendArgCheck(sender_uid, receiver_uid) IN
       IF err # NoResp
       THEN /\ resp' = err
            /\ snd' = snd
       ELSE /\ resp' = NoResp
            /\ snd' = [pc |-> "hasContactWith", sender_uid |-> sender_uid,
                       receiver_uid |-> receiver_uid, content |-> content,
                       nonce |-> nonce]
    /\ UNCHANGED <<contacts, blocks, mailbox, nextMid, clock, issued>>
    /\ UNCHANGED clientVars

\* SendHasContact without the check of line 88.
SendHasContact_Unchecked ==
    /\ Ready
    /\ snd.pc = "hasContactWith"
    /\ resp' = NoResp
    /\ snd' = [snd EXCEPT !.pc = "canSendMessage"]
    /\ UNCHANGED <<contacts, blocks, mailbox, nextMid, clock, issued>>
    /\ UNCHANGED clientVars

SendHasContact ==
    /\ Ready
    /\ snd.pc = "hasContactWith"
    /\ IF ~hasContactWith(snd.sender_uid, snd.receiver_uid)
       THEN /\ resp' = createErrorResponse("send", "FORBIDDEN",
                                           "Users are not contacts")
            /\ snd' = Idle
       ELSE /\ resp' = NoResp
            /\ snd' = [snd EXCEPT !.pc = "canSendMessage"]
    /\ UNCHANGED <<contacts, blocks, mailbox, nextMid, clock, issued>>
    /\ UNCHANGED clientVars

SendCanSend ==
    /\ Ready
    /\ snd.pc = "canSendMessage"
    /\ LET messagePermission == canSendMessage(snd.sender_uid, snd.receiver_uid) IN
       IF ~messagePermission.canSend
       THEN /\ resp' = PermissionError(messagePermission)
            /\ snd' = Idle
       ELSE /\ resp' = NoResp
            /\ snd' = [snd EXCEPT !.pc = "insert"]
    /\ UNCHANGED <<contacts, blocks, mailbox, nextMid, clock, issued>>
    /\ UNCHANGED clientVars

\* Lines 115-146.  An INSERT that returns has rowCount 1, so the branch of
\* lines 123-128 is not taken; a query that throws ends in the catch branch.
\* The clock stands still or advances between two inserts.
SendInsert ==
    /\ Ready
    /\ snd.pc = "insert"
    /\ snd' = Idle
    /\ \E queryOk \in BOOLEAN :
       IF queryOk
       THEN /\ nextMid <= MaxMid
            /\ \E t \in {clock, clock + 1} :
                 LET row == InsertedRow(nextMid, t, snd.sender_uid,
                                        snd.receiver_uid, snd.content, snd.nonce)
                 IN /\ mailbox' = mailbox \cup {row}
                    /\ issued' = issued \cup {[mid |-> row.mid,
                                                sender_uid |-> row.sender_uid,
                                                receiver_uid |-> row.receiver_uid]}
                    /\ clock' = t
                    /\ resp' = createSuccessResponse("send", row)
            /\ nextMid' = nextMid + 1
       ELSE /\ resp' = createErrorResponse("send", "INTERNAL_SERVER_ERROR",
                                           "Failed to send message.")
            /\ UNCHANGED <<mailbox, nextMid, clock, issued>>
    /\ UNCHANGED <<contacts, blocks>>
    /\ UNCHANGED clientVars

\* ------------------------------------------------------------------------
\* fetchMessage
\* ------------------------------------------------------------------------
\* FetchArgCheck without the self-fetch check.
FetchArgCheck_NoSelf(sender_uid, receiver_uid) ==
    IF ~isValidUserId(sender_uid) \/ ~isValidUserId(receiver_uid)
    THEN createErrorResponse("fetch", "BAD_REQUEST", "Invalid UID")
    ELSE IF ~userExists(sender_uid) \/ ~userExists(receiver_uid)
    THEN createErrorResponse("fetch", "NOT_FOUND", "User not found")
    ELSE NoResp

\* Lines 156-175.
FetchArgCheck(sender_uid, receiver_uid) ==
    IF ~isValidUserId(sender_uid) \/ ~isValidUserId(receiver_uid)
    THEN createErrorResponse("fetch", "BAD_REQUEST", "Invalid UID")
    ELSE IF ~userExists(sender_uid) \/ ~userExists(receiver_uid)
    THEN createErrorResponse("fetch", "NOT_FOUND", "User not found")
    ELSE IF sender_uid = receiver_uid
    THEN createErrorResponse("fetch", "BAD_REQUEST", "Cannot fetch messages with self")
    ELSE NoResp

\* FetchWhere with one direction only.
FetchWhere_OneDirection(m, p1, p2) ==
    m.sender_uid = p1 /\ m.receiver_uid = p2

\* Lines 181-182: the WHERE clause of the SELECT.
FetchWhere(m, p1, p2) ==
    \/ (m.sender_uid = p1 /\ m.receiver_uid = p2)
    \/ (m.sender_uid = p2 /\ m.receiver_uid = p1)

\* Line 183: ORDER BY m.timestamp ASC.
OrderedByTimestamp(s) ==
    \A i \in 1..Len(s), j \in 1..Len(s) :
        i < j => s[i].timestamp <= s[j].timestamp

\* Lines 178-185: the row sequences the SELECT may return.  ORDER BY names
\* the timestamp alone, so rows of equal timestamp come in any order.
FetchQuery(rows, p1, p2) ==
    LET sel == {m \in rows : FetchWhere(m, p1, p2)}
        n == Cardinality(sel)
    IN {s \in [1..n -> sel] :
            /\ \A i \in 1..n, j \in 1..n : i # j => s[i] # s[j]
            /\ OrderedByTimestamp(s)}

\* fetchMessage that deletes the rows it returns.
fetchMessage_RemovesFetched(sender_uid, receiver_uid) ==
    /\ Ready
    /\ snd.pc = "idle"
    /\ LET err == FetchArgCheck(sender_uid, receiver_uid) IN
       IF err # NoResp
       THEN resp' = err /\ mailbox' = mailbox
       ELSE \E messages \in FetchQuery(mailbox, sender_uid, receiver_uid) :
                /\ resp' = createSuccessResponse("fetch", messages)
                /\ mailbox' = {m \in mailbox : ~FetchWhere(m, sender_uid, receiver_uid)}
    /\ UNCHANGED <<contacts, blocks, nextMid, clock, issued, snd>>
    /\ UNCHANGED clientVars

\* Lines 155-204.
fetchMessage(sender_uid, receiver_uid) ==
    /\ Ready
    /\ snd.pc = "idle"
    /\ LET err == FetchArgCheck(sender_uid, receiver_uid) IN
       IF err # NoResp
       THEN resp' = err
       ELSE \E queryOk \in BOOLEAN :
            IF queryOk
            THEN \E messages \in FetchQuery(mailbox, sender_uid, receiver_uid) :
                     resp' = createSuccessResponse("fetch", messages)
            ELSE resp' = createErrorResponse("fetch", "INTERNAL_SERVER_ERROR",
                                             "Failed to fetch messages.")
    /\ UNCHANGED <<contacts, blocks, mailbox, nextMid, clock, issued, snd>>
    /\ UNCHANGED clientVars

\* ------------------------------------------------------------------------
\* deleteReceivedMessages
\* ------------------------------------------------------------------------
\* Entries of a messageIds array as they arrive in the request body.
\*   number:  the integer n           string: digits of n followed by text
\*   fraction: n plus a fraction      text:   a string with no leading digit
JsNumber(n) == [kind |-> "number", n |-> n]
JsFraction(n) == [kind |-> "fraction", n |-> n]
JsDigitsText(n) == [kind |-> "digitsText", n |-> n]
JsText == [kind |-> "text", n |-> 0]
JsNull == [kind |-> "null", n |-> 0]
JsUndefined == [kind |-> "undefined", n |-> 0]

\* parseInt(id as any): the leading integer of the entry's string form;
\* the empty set stands for NaN.
parseInt(id) ==
    IF id.kind \in {"number", "fraction", "digitsText"} THEN {id.n} ELSE {}

\* validMessageIds without the isNaN filter: an entry that is no number
\* stays in the list as id 0.
validMessageIds_Unfiltered(messageIds) ==
    [i \in 1..Len(messageIds) |->
        IF parseInt(messageIds[i]) = {} THEN 0
        ELSE CHOOSE v \in parseInt(messageIds[i]) : TRUE]

\* Lines 229-232.
validMessageIds(messageIds) ==
    LET present == SelectSeq(messageIds,
                             LAMBDA id : id.kind \notin {"null", "undefined"})
        parsed == [i \in 1..Len(present) |-> parseInt(present[i])]
        numbers == SelectSeq(parsed, LAMBDA p : p # {})
    IN [i \in 1..Len(numbers) |-> CHOOSE v \in numbers[i] : TRUE]

\* DeleteWhere without the receiver_uid condition.
DeleteWhere_AnyReceiver(rows, receiver_uid, ids) ==
    {m \in rows : \E i \in 1..Len(ids) : ids[i] = m.mid}

\* Lines 243-246: the rows the DELETE removes.
DeleteWhere(rows, receiver_uid, ids) ==
    {m \in rows : m.receiver_uid = receiver_uid
                  /\ \E i \in 1..Len(ids) : ids[i] = m.mid}

\* DeleteResponse with the text of the caught error as message.
DeleteResponse_ErrorText(receiver_uid, messageIds, r) ==
    [op |-> "delete", receiver_uid |-> receiver_uid, messageIds |-> messageIds,
     success |-> r.success, statusCode |-> r.statusCode,
     message |-> IF r.success THEN ""
                 ELSE IF r.statusCode = "INTERNAL_SERVER_ERROR"
                 THEN "error: relation \"message\" does not exist"
                 ELSE r.message,
     deleted |-> IF r.success THEN r.data.deleted ELSE 0]

\* The response of deleteReceivedMessages, with the arguments of the call.
DeleteResponse(receiver_uid, messageIds, r) ==
    [op |-> "delete", receiver_uid |-> receiver_uid, messageIds |-> messageIds,
     success |-> r.success, statusCode |-> r.statusCode,
     message |-> IF r.success THEN "" ELSE r.message,
     deleted |-> IF r.success THEN r.data.deleted ELSE 0]

\* messageIds is [isArray, items]; a missing or non-array body field has
\* isArray = FALSE.
deleteReceivedMessages(receiver_uid, messageIds) ==
    /\ Ready
    /\ snd.pc = "idle"
    /\ IF ~isValidUserId(receiver_uid)
       THEN /\ resp' = DeleteResponse(receiver_uid, messageIds,
                    createErrorResponse("delete", "BAD_REQUEST", "Invalid user ID"))
            /\ mailbox' = mailbox
       ELSE IF ~messageIds.isArray \/ Len(messageIds.items) = 0
       THEN /\ resp' = DeleteResponse(receiver_uid, messageIds,
                    createErrorResponse("delete", "BAD_REQUEST",
                                        "No message IDs provided"))
            /\ mailbox' = mailbox
       ELSE IF Len(validMessageIds(messageIds.items)) = 0
       THEN /\ resp' = DeleteResponse(receiver_uid, messageIds,
                    createErrorResponse("delete", "BAD_REQUEST",
                                        "No valid message IDs provided"))
            /\ mailbox' = mailbox
       ELSE \E queryOk \in BOOLEAN :
            IF queryOk
            THEN LET gone == DeleteWhere(mailbox, receiver_uid,
                                         validMessageIds(messageIds.items))
                 IN /\ mailbox' = mailbox \ gone
                    /\ resp' = DeleteResponse(receiver_uid, messageIds,
                            createSuccessResponse("delete",
                                [deleted |-> Cardinality(gone)]))
            ELSE /\ resp' = DeleteResponse(receiver_uid, messageIds,
                        createErrorResponse("delete", "INTERNAL_SERVER_ERROR",
                                            "Failed to delete received messages"))
                 /\ mailbox' = mailbox
    /\ UNCHANGED <<contacts, blocks, nextMid, clock, issued, snd>>
    /\ UNCHANGED clientVars

\* Arguments given to deleteReceivedMessages.  AllIds lists every id.
\* IdArrays: no array, the empty array, every single id, all ids together,
\* and arrays with entries that are no integer.
RECURSIVE Ascending(_)
Ascending(S) ==
    IF S = {} THEN <<>>
    ELSE LET lo == CHOOSE x \in S : \A y \in S : x <= y
         IN <<JsNumber(lo)>> \o Ascending(S \ {lo})

AllIds == [isArray |-> TRUE, items |-> Ascending(1..MaxMid)]

IdArrays ==
    {[isArray |-> FALSE, items |-> <<>>], AllIds} \cup
    {[isArray |-> TRUE, items |-> s] :
        s \in {<<>>, <<JsNull>>, <<JsText>>, <<JsFraction(1)>>,
               <<JsDigitsText(1)>>, <<JsNull, JsNumber(1)>>,
               <<JsNumber(1), JsFraction(2)>>}
              \cup {<<JsNumber(i)>> : i \in 1..MaxMid}}

\* ------------------------------------------------------------------------
\* The contact workflow and the storage layer (environment)
\* ------------------------------------------------------------------------
AddContact(a, b) ==
    /\ Ready
    /\ {a, b} \in ContactPairs
    /\ {a, b} \notin contacts
    /\ contacts' = contacts \cup {{a, b}}
    /\ resp' = NoResp
    /\ UNCHANGED <<blocks, mailbox, nextMid, clock, issued, snd>>
    /\ UNCHANGED clientVars

RemoveContact(a, b) ==
    /\ Ready
    /\ {a, b} \in contacts
    /\ contacts' = contacts \ {{a, b}}
    /\ blocks' = blocks \ {<<a, b>>, <<b, a>>}
    /\ resp' = NoResp
    /\ UNCHANGED <<mailbox, nextMid, clock, issued, snd>>
    /\ UNCHANGED clientVars

BlockUser(a, b) ==
    /\ Ready
    /\ {a, b} \in contacts
    /\ a # b
    /\ <<a, b>> \notin blocks
    /\ blocks' = blocks \cup {<<a, b>>}
    /\ resp' = NoResp
    /\ UNCHANGED <<contacts, mailbox, nextMid, clock, issued, snd>>
    /\ UNCHANGED clientVars

UnblockUser(a, b) ==
    /\ Ready
    /\ <<a, b>> \in blocks
    /\ blocks' = blocks \ {<<a, b>>}
    /\ resp' = NoResp
    /\ UNCHANGED <<contacts, mailbox, nextMid, clock, issued, snd>>
    /\ UNCHANGED clientVars

\* The caller receives the response.
Return ==
    /\ resp # NoResp
    /\ resp' = NoResp
    /\ UNCHANGED <<contacts, blocks, mailbox, nextMid, clock, issued, snd>>
    /\ UNCHANGED clientVars

\* ------------------------------------------------------------------------
\* The push relay
\* ------------------------------------------------------------------------
NoPush == [room |-> 0]

\* Connections that are members of the channel of uid.
RoomMembers(uid) == {m[1] : m \in {x \in rooms : x[2] = uid}}

\* The row as it travels in the notification: the timestamp is a string.
Notification(row) ==
    [row EXCEPT !.timestamp = [kind |-> "string", t |-> row.timestamp]]

\* Emit with the notification sent to the channel of the sender as well.
Emit_BothChannels(message) ==
    [message |-> message, room |-> message.receiver_uid,
     to |-> RoomMembers(message.receiver_uid) \cup RoomMembers(message.sender_uid)]

\* new_message is emitted to the channel of the receiver; the connections
\* that are members at that moment get it, nothing is kept for later.
Emit(message) ==
    [message |-> message, room |-> message.receiver_uid,
     to |-> RoomMembers(message.receiver_uid)]

\* After a successful sendMessage the route emits the returned row.
Push ==
    /\ resp.op = "send"
    /\ resp.success
    /\ pushed = NoPush
    /\ pushed' = Emit(Notification(resp.data))
    /\ UNCHANGED <<serverVars, panelVars, rooms, wsVars>>

\* The response of the route: after the emit when the send succeeded.
RelayReturn ==
    /\ (resp.op = "send" /\ resp.success) => pushed # NoPush
    /\ resp # NoResp
    /\ resp' = NoResp
    /\ pushed' = NoPush
    /\ UNCHANGED <<contacts, blocks, mailbox, nextMid, clock, issued, snd>>
    /\ UNCHANGED <<rooms, wsVars, panelVars>>

\* join(userId) arrives on connection k.
RelayJoin(k, uid) ==
    /\ Ready
    /\ <<k, uid>> \notin rooms
    /\ rooms' = rooms \cup {<<k, uid>>}
    /\ UNCHANGED <<serverVars, panelVars, pushed, wsVars>>

\* Connection k is gone: its memberships are torn down.
RelayLeave(k) ==
    /\ Ready
    /\ \E x \in rooms : x[1] = k
    /\ rooms' = {x \in rooms : x[1] # k}
    /\ UNCHANGED <<serverVars, panelVars, pushed, wsVars>>

\* ------------------------------------------------------------------------
\* WebSocketService
\* ------------------------------------------------------------------------
NoSocket == 0
NoUser == 0

\* A Socket object.  userId is the parameter of the connect() call whose
\* listeners it carries.  status: "opening" (first connection attempt),
\* "open" (socket.connected), "retrying" (the manager reconnects by itself
\* after a transport error or loss), "closed" (disconnected by the client
\* or refused by the server; no further attempt).  sendBuffer holds the
\* joins emitted while the socket was not connected.
NewSocket(userId) ==
    [userId |-> userId, status |-> "opening", sendBuffer |-> {}]

connected(k) == k # NoSocket /\ sockets[k].status = "open"

\* No notification is being handled.
Quiet == pushed = NoPush

\* socket.disconnect() on socket k.
Closed(socks, k) ==
    [socks EXCEPT ![k].status = "closed", ![k].sendBuffer = {}]

\* Lines 77-84 without the socket.disconnect() call.
disconnectEffect_KeepOpen ==
    [sockets |-> sockets,
     rooms |-> rooms,
     socket |-> NoSocket, currentUserId |-> NoUser, isConnecting |-> FALSE]

\* Lines 77-84: the fields after this.disconnect().
disconnectEffect ==
    [sockets |-> IF socket # NoSocket THEN Closed(sockets, socket) ELSE sockets,
     rooms |-> {x \in rooms : x[1] # socket},
     socket |-> NoSocket, currentUserId |-> NoUser, isConnecting |-> FALSE]

disconnect ==
    /\ Quiet
    /\ socket # NoSocket \/ currentUserId # NoUser \/ isConnecting
    /\ sockets' = disconnectEffect.sockets
    /\ rooms' = disconnectEffect.rooms
    /\ socket' = NoSocket
    /\ currentUserId' = NoUser
    /\ isConnecting' = FALSE
    /\ UNCHANGED <<serverVars, panelVars, pushed, messageHandlers, storedUser, handled>>

\* connect without the early return of lines 20-22.
connect_NoGuard(userId, token) ==
    /\ Quiet
    /\ Len(sockets) < MaxSockets
    /\ LET d == IF socket # NoSocket /\ currentUserId # userId
                THEN disconnectEffect
                ELSE [sockets |-> sockets, rooms |-> rooms]
       IN /\ sockets' = Append(d.sockets, NewSocket(userId))
          /\ rooms' = d.rooms
    /\ socket' = Len(sockets) + 1
    /\ currentUserId' = userId
    /\ isConnecting' = TRUE
    /\ UNCHANGED <<serverVars, panelVars, pushed, messageHandlers, storedUser, handled>>

\* Lines 18-72.
connect(userId, token) ==
    /\ Quiet
    /\ IF isConnecting \/ (connected(socket) /\ currentUserId = userId)
       THEN UNCHANGED <<sockets, rooms, socket, currentUserId, isConnecting>>
       ELSE /\ Len(sockets) < MaxSockets
            /\ LET d == IF socket # NoSocket /\ currentUserId # userId
                        THEN disconnectEffect
                        ELSE [sockets |-> sockets, rooms |-> rooms]
               IN /\ sockets' = Append(d.sockets, NewSocket(userId))
                  /\ rooms' = d.rooms
            /\ socket' = Len(sockets) + 1
            /\ currentUserId' = userId
            /\ isConnecting' = TRUE
    /\ UNCHANGED <<serverVars, panelVars, pushed, messageHandlers, storedUser, handled>>

\* Lines 38-46: the 'connect' event of socket k, at its first connection
\* and at every reconnection.  The join is emitted on this.socket; an emit
\* on a socket that is not connected waits in its sendBuffer.
OnConnect(k) ==
    /\ Quiet
    /\ sockets[k].status \in {"opening", "retrying"}
    /\ isConnecting' = FALSE
    /\ LET flushed == {<<k, u>> : u \in sockets[k].sendBuffer}
           opened == [sockets EXCEPT ![k].status = "open", ![k].sendBuffer = {}]
       IN IF socket = NoSocket
          THEN /\ sockets' = opened
               /\ rooms' = rooms \cup flushed
          ELSE IF opened[socket].status = "open"
          THEN /\ sockets' = opened
               /\ rooms' = rooms \cup flushed \cup {<<socket, sockets[k].userId>>}
          ELSE /\ sockets' = [opened EXCEPT ![socket].sendBuffer =
                                    @ \cup {sockets[k].userId}]
               /\ rooms' = rooms \cup flushed
    /\ UNCHANGED <<serverVars, panelVars, pushed, socket, messageHandlers, currentUserId,
                   storedUser, handled>>

\* The connect_error listener without the assignment of line 65.
OnConnectError_KeepFlag(k) ==
    /\ Quiet
    /\ sockets[k].status \in {"opening", "retrying"}
    /\ \E retry \in BOOLEAN :
          sockets' = IF retry THEN [sockets EXCEPT ![k].status = "retrying"]
                     ELSE Closed(sockets, k)
    /\ UNCHANGED <<serverVars, panelVars, relayVars, socket, messageHandlers, currentUserId,
                   isConnecting, storedUser, handled>>

\* Lines 63-66: the 'connect_error' event of socket k.  After a transport
\* error the manager tries again; a refused handshake ends the socket.
OnConnectError(k) ==
    /\ Quiet
    /\ sockets[k].status \in {"opening", "retrying"}
    /\ isConnecting' = FALSE
    /\ \E retry \in BOOLEAN :
          sockets' = IF retry THEN [sockets EXCEPT ![k].status = "retrying"]
                     ELSE Closed(sockets, k)
    /\ UNCHANGED <<serverVars, panelVars, relayVars, socket, messageHandlers, currentUserId,
                   storedUser, handled>>

\* Lines 68-71: the 'disconnect' event of socket k when the transport is
\* lost (the manager reconnects) or the server ends the connection.
OnDisconnect(k) ==
    /\ Quiet
    /\ sockets[k].status = "open"
    /\ isConnecting' = FALSE
    /\ rooms' = {x \in rooms : x[1] # k}
    /\ \E retry \in BOOLEAN :
          sockets' = IF retry THEN [sockets EXCEPT ![k].status = "retrying"]
                     ELSE Closed(sockets, k)
    /\ UNCHANGED <<serverVars, panelVars, pushed, socket, messageHandlers, currentUserId,
                   storedUser, handled>>

\* Lines 90-92.
onNewMessage(handler) ==
    /\ Quiet
    /\ Len(messageHandlers) < MaxHandlers
    /\ messageHandlers' = Append(messageHandlers, handler)
    /\ UNCHANGED <<serverVars, panelVars, relayVars, socket, sockets, currentUserId,
                   isConnecting, storedUser, handled>>

\* removeMessageHandler that takes out the first registration only.
removeMessageHandler_FirstOnly(handler) ==
    /\ Quiet
    /\ \E i \in 1..Len(messageHandlers) : messageHandlers[i] = handler
    /\ LET first == CHOOSE i \in 1..Len(messageHandlers) :
                        /\ messageHandlers[i] = handler
                        /\ \A j \in 1..(i - 1) : messageHandlers[j] # handler
       IN messageHandlers' = [j \in 1..(Len(messageHandlers) - 1) |->
                                 IF j < first THEN messageHandlers[j]
                                 ELSE messageHandlers[j + 1]]
    /\ UNCHANGED <<serverVars, panelVars, relayVars, socket, sockets, currentUserId,
                   isConnecting, storedUser, handled>>

\* Lines 98-100.
removeMessageHandler(handler) ==
    /\ Quiet
    /\ \E i \in 1..Len(messageHandlers) : messageHandlers[i] = handler
    /\ messageHandlers' = SelectSeq(messageHandlers, LAMBDA h : h # handler)
    /\ UNCHANGED <<serverVars, panelVars, relayVars, socket, sockets, currentUserId,
                   isConnecting, storedUser, handled>>

\* The user kept by storageService changes (login, logout).
SetStoredUser(u) ==
    /\ Quiet
    /\ u # storedUser
    /\ storedUser' = u
    /\ UNCHANGED <<serverVars, panelVars, relayVars, socket, sockets, messageHandlers,
                   currentUserId, isConnecting, handled>>

\* Lines 55-57: a string timestamp becomes a Date.
createDateWithTimezone(timestamp) ==
    IF timestamp.kind = "string" THEN [kind |-> "date", t |-> timestamp.t]
    ELSE timestamp

\* The new_message listener without the check of lines 50-53.
NewMessageListener_NoSkip(k, message) ==
    [i \in 1..Len(messageHandlers) |->
        [handler |-> messageHandlers[i], socket |-> k,
         message |-> [message EXCEPT
                        !.timestamp = createDateWithTimezone(message.timestamp)]]]

\* Lines 48-61: the handler calls the new_message listener of socket k
\* makes for one notification.
NewMessageListener(k, message) ==
    IF storedUser = message.sender_uid
    THEN <<>>
    ELSE [i \in 1..Len(messageHandlers) |->
            [handler |-> messageHandlers[i], socket |-> k,
             message |-> [message EXCEPT
                            !.timestamp = createDateWithTimezone(message.timestamp)]]]

RECURSIVE ListenerCalls(_, _)
ListenerCalls(to, message) ==
    IF to = {} THEN <<>>
    ELSE LET k == CHOOSE x \in to : \A y \in to : x <= y
         IN NewMessageListener(k, message) \o ListenerCalls(to \ {k}, message)

\* The relay emits the notification of a message from sender_uid to
\* receiver_uid and each socket that gets it runs its listener.
RelayNotify(sender_uid, receiver_uid, mid) ==
    /\ Quiet
    /\ sender_uid # receiver_uid
    /\ LET row == InsertedRow(mid, 0, sender_uid, receiver_uid, "hello", "n1")
           e == Emit(Notification(row))
       IN /\ pushed' = e
          /\ handled' = ListenerCalls(e.to, e.message)
    /\ UNCHANGED <<serverVars, panelVars, rooms, socket, sockets, messageHandlers,
                   currentUserId, isConnecting, storedUser>>

\* The handler calls of the notification have returned.
Settle ==
    /\ pushed # NoPush
    /\ pushed' = NoPush
    /\ handled' = <<>>
    /\ UNCHANGED <<serverVars, panelVars, rooms, socket, sockets, messageHandlers,
                   currentUserId, isConnecting, storedUser>>

\* ------------------------------------------------------------------------
\* ChatPanel
\* ------------------------------------------------------------------------
\* A loadPaginatedMessages call and the function that awaits it.
PageLoad(fn, contactUserId, page) ==
    [fn |-> fn, contact |-> contactUserId, page |-> page]

\* An entry of the visible history: a message with `peer`, read from the
\* local cache by a page load or appended by the push handler.
HistoryEntry(peer, from) == [peer |-> peer, from |-> from]

NoCompact == [owner |-> NoUser, peer |-> NoUser]

\* Lines 170-176 up to the first await: clearMessages() and the call of
\* loadPaginatedMessages for page 0.
loadMessages(contactUserId) ==
    /\ Len(inflight) < MaxLoads
    /\ inflight' = Append(inflight, PageLoad("loadMessages", contactUserId, 0))
    /\ storeMessages' = <<>>

\* Lines 104-108 and 164-168: both onMounted hooks, each up to its first
\* await.
Mount ==
    /\ ~mounted
    /\ mounted' = TRUE
    /\ IF showChat THEN loadMessages(contact)
       ELSE UNCHANGED <<inflight, storeMessages>>
    /\ pendingInit' = pendingInit + 1
    /\ compacted' = NoCompact
    /\ UNCHANGED <<serverVars, relayVars, wsVars, cacheVars, contact, visible,
                   showChat, isLoadingMoreMessages, totalMessagePages,
                   currentMessagePage>>

\* Lines 109-114: props.visible changes.
WatchVisible(isVisible) ==
    /\ mounted
    /\ isVisible # visible
    /\ visible' = isVisible
    /\ showChat' = isVisible
    /\ IF isVisible THEN loadMessages(contact)
       ELSE UNCHANGED <<inflight, storeMessages>>
    /\ compacted' = NoCompact
    /\ UNCHANGED <<serverVars, relayVars, wsVars, cacheVars, mounted, contact,
                   isLoadingMoreMessages, pendingInit, totalMessagePages,
                   currentMessagePage>>

\* Lines 116-120: props.contact changes, to another contact or to a new
\* object of the same contact.
WatchContact(newContact) ==
    /\ mounted
    /\ contact' = newContact
    /\ IF showChat THEN loadMessages(newContact)
       ELSE UNCHANGED <<inflight, storeMessages>>
    /\ compacted' = NoCompact
    /\ UNCHANGED <<serverVars, relayVars, wsVars, cacheVars, mounted, visible,
                   showChat, isLoadingMoreMessages, pendingInit,
                   totalMessagePages, currentMessagePage>>

\* Lines 125-146 up to the await of line 136.
loadMoreMessages ==
    /\ mounted
    /\ showChat
    /\ IF currentMessagePage >= totalMessagePages - 1 \/ isLoadingMoreMessages
       THEN UNCHANGED <<isLoadingMoreMessages, inflight>>
       ELSE /\ Len(inflight) < MaxLoads
            /\ isLoadingMoreMessages' = TRUE
            /\ inflight' = Append(inflight,
                               PageLoad("loadMoreMessages", contact,
                                        currentMessagePage + 1))
    /\ compacted' = NoCompact
    /\ UNCHANGED <<serverVars, relayVars, wsVars, cacheVars, mounted, contact,
                   visible, showChat, pendingInit, totalMessagePages,
                   currentMessagePage, storeMessages>>

\* What a page load that resolves leaves in messageStore.messages: page 0
\* becomes the history, an older page is put in front of it.
LoadedPage(load) ==
    IF load.page = 0
    THEN <<HistoryEntry(load.contact, "cache")>>
    ELSE <<HistoryEntry(load.contact, "cache")>> \o storeMessages

\* LoadSettles with the reset of line 144 made only after a load that
\* resolved.
LoadSettles_NoFinally(i, resolved) ==
    /\ i \in 1..Len(inflight)
    /\ inflight' = [j \in 1..(Len(inflight) - 1) |->
                        IF j < i THEN inflight[j] ELSE inflight[j + 1]]
    /\ currentMessagePage' = IF resolved THEN inflight[i].page
                              ELSE currentMessagePage
    /\ IF resolved
       THEN /\ Len(LoadedPage(inflight[i])) <= MaxHistory
            /\ storeMessages' = LoadedPage(inflight[i])
       ELSE storeMessages' = storeMessages
    /\ IF inflight[i].fn = "loadMoreMessages"
       THEN /\ isLoadingMoreMessages' = IF resolved THEN FALSE
                                        ELSE isLoadingMoreMessages
            /\ pendingInit' = pendingInit
       ELSE /\ isLoadingMoreMessages' = isLoadingMoreMessages
            /\ resolved => pendingInit < MaxLoads
            /\ pendingInit' = IF resolved THEN pendingInit + 1 ELSE pendingInit
    /\ compacted' = NoCompact
    /\ UNCHANGED <<serverVars, relayVars, wsVars, cacheVars, mounted, contact,
                   visible, showChat, totalMessagePages>>

\* The i-th call in flight settles.  loadMoreMessages goes on at lines
\* 141-145, loadMessages at line 174 when the call did not throw.  A call
\* that resolves leaves its page in messageStore.currentMessagePage and its
\* messages in messageStore.messages.
LoadSettles(i, resolved) ==
    /\ i \in 1..Len(inflight)
    /\ inflight' = [j \in 1..(Len(inflight) - 1) |->
                        IF j < i THEN inflight[j] ELSE inflight[j + 1]]
    /\ currentMessagePage' = IF resolved THEN inflight[i].page
                              ELSE currentMessagePage
    /\ IF resolved
       THEN /\ Len(LoadedPage(inflight[i])) <= MaxHistory
            /\ storeMessages' = LoadedPage(inflight[i])
       ELSE storeMessages' = storeMessages
    /\ IF inflight[i].fn = "loadMoreMessages"
       THEN /\ isLoadingMoreMessages' = FALSE
            /\ pendingInit' = pendingInit
       ELSE /\ isLoadingMoreMessages' = isLoadingMoreMessages
            /\ resolved => pendingInit < MaxLoads
            /\ pendingInit' = IF resolved THEN pendingInit + 1 ELSE pendingInit
    /\ compacted' = NoCompact
    /\ UNCHANGED <<serverVars, relayVars, wsVars, cacheVars, mounted, contact,
                   visible, showChat, totalMessagePages>>

\* Lines 151-163 after the await: storageService reports the number of
\* pages and setTotalMessagePages stores it.
initMessagePagination(pages) ==
    /\ pendingInit > 0
    /\ pendingInit' = pendingInit - 1
    /\ totalMessagePages' = pages
    /\ compacted' = NoCompact
    /\ UNCHANGED <<serverVars, relayVars, wsVars, cacheVars, mounted, contact,
                   visible, showChat, isLoadingMoreMessages, inflight,
                   currentMessagePage, storeMessages>>

\* Lines 282-290: optimizeMessageStorage is called when a user is stored.
goBack ==
    /\ mounted
    /\ showChat
    /\ showChat' = FALSE
    /\ compacted' = IF storedUser # NoUser
                    THEN [owner |-> storedUser, peer |-> contact]
                    ELSE NoCompact
    /\ UNCHANGED <<serverVars, relayVars, wsVars, cacheVars, mounted, contact,
                   visible, isLoadingMoreMessages, inflight, pendingInit,
                   totalMessagePages, currentMessagePage, storeMessages>>

\* Lines 213-221: the timer that removeContact starts once deleteContact
\* has succeeded.
removeContact ==
    /\ mounted
    /\ showChat
    /\ showChat' = FALSE
    /\ compacted' = NoCompact
    /\ UNCHANGED <<serverVars, relayVars, wsVars, cacheVars, mounted, contact,
                   visible, isLoadingMoreMessages, inflight, pendingInit,
                   totalMessagePages, currentMessagePage, storeMessages>>

\* A new_message notification of sender_uid reaches the client: the
\* listener of websocket.service.ts lines 48-61 skips the user's own
\* messages and calls the store's handler at once; the handler appends a
\* message of the open peer to the visible history.
HandleNewMessage(sender_uid) ==
    /\ mounted
    /\ storedUser # sender_uid
    /\ IF showChat /\ sender_uid = contact
       THEN /\ Len(storeMessages) < MaxHistory
            /\ storeMessages' = Append(storeMessages, HistoryEntry(sender_uid, "push"))
       ELSE storeMessages' = storeMessages
    /\ compacted' = NoCompact
    /\ UNCHANGED <<serverVars, relayVars, wsVars, cacheVars, mounted, contact,
                   visible, showChat, isLoadingMoreMessages, inflight,
                   pendingInit, totalMessagePages, currentMessagePage>>

\* ------------------------------------------------------------------------
\* LocalCache
\* ------------------------------------------------------------------------
\* merge without the test for ids already stored.
merge_NoDedup(stored, newMessages) == stored \o newMessages

RECURSIVE merge(_, _)
\* merge of one conversation: the messages of newMessages whose id the
\* cache does not hold yet are appended in their order.
merge(stored, newMessages) ==
    IF newMessages = <<>> THEN stored
    ELSE LET m == Head(newMessages)
         IN merge(IF \E i \in 1..Len(stored) : stored[i] = m
                  THEN stored
                  ELSE Append(stored, m),
                  Tail(newMessages))

\* The batches a fetch can return: message ids in ascending order.
Batches ==
    {b \in UNION {[1..n -> 1..MaxCacheMid] : n \in 0..MaxCacheMid} :
        \A i, j \in 1..Len(b) : i < j => b[i] < b[j]}

\* The client pulls a batch from the mailbox.
Pull(b) ==
    /\ pulled' = b
    /\ merges' = 0
    /\ UNCHANGED <<serverVars, relayVars, wsVars, cache, mounted, contact,
                   visible, showChat, isLoadingMoreMessages, inflight,
                   pendingInit, totalMessagePages, currentMessagePage,
                   storeMessages, compacted>>

\* The pulled batch is merged into the cache, for the first time or again.
MergePulled ==
    /\ merges < MaxMerges
    /\ cache' = merge(cache, pulled)
    /\ merges' = merges + 1
    /\ UNCHANGED <<serverVars, relayVars, wsVars, pulled, mounted, contact,
                   visible, showChat, isLoadingMoreMessages, inflight,
                   pendingInit, totalMessagePages, currentMessagePage,
                   storeMessages, compacted>>

\* ------------------------------------------------------------------------
\* Specification
\* ------------------------------------------------------------------------
\* The panel after setup: showChat = ref(props.visible).
InitPanel(isVisible) ==
    /\ mounted = FALSE
    /\ contact = 2
    /\ visible = isVisible
    /\ showChat = isVisible
    /\ isLoadingMoreMessages = FALSE
    /\ inflight = <<>>
    /\ pendingInit = 0
    /\ totalMessagePages = 0
    /\ currentMessagePage = 0
    /\ storeMessages = <<>>
    /\ compacted = NoCompact
    /\ cache = <<>>
    /\ pulled = <<>>
    /\ merges = 0

InitWebSocket ==
    /\ rooms = {}
    /\ pushed = NoPush
    /\ socket = NoSocket
    /\ sockets = <<>>
    /\ messageHandlers = <<>>
    /\ currentUserId = NoUser
    /\ isConnecting = FALSE
    /\ storedUser = NoUser
    /\ handled = <<>>

InitClient == InitWebSocket /\ InitPanel(FALSE)

Init ==
    /\ contacts = {}
    /\ blocks = {}
    /\ mailbox = {}
    /\ nextMid = 1
    /\ clock = 0
    /\ issued = {}
    /\ snd = Idle
    /\ resp = NoResp
    /\ InitClient

Next ==
    \/ \E s \in Uids, r \in Uids, c \in Contents, n \in Nonces : SendCall(s, r, c, n)
    \/ SendHasContact
    \/ SendCanSend
    \/ SendInsert
    \/ \E a \in Uids, b \in Uids : fetchMessage(a, b)
    \/ \E r \in ExistingUsers : deleteReceivedMessages(r, AllIds)
    \/ \E a \in ExistingUsers, b \in ExistingUsers : AddContact(a, b)
    \/ \E a \in ExistingUsers, b \in ExistingUsers : RemoveContact(a, b)
    \/ \E a \in ExistingUsers, b \in ExistingUsers : BlockUser(a, b)
    \/ \E a \in ExistingUsers, b \in ExistingUsers : UnblockUser(a, b)
    \/ Return

Spec == Init /\ [][Next]_vars

\* The mailbox operations alone, between users who are and stay contacts:
\* fetchMessage and deleteReceivedMessages read nothing but their arguments
\* and the message table, and every table Spec reaches is reached here.
InitMailbox ==
    /\ contacts = ContactPairs
    /\ blocks = {}
    /\ mailbox = {}
    /\ nextMid = 1
    /\ clock = 0
    /\ issued = {}
    /\ snd = Idle
    /\ resp = NoResp
    /\ InitClient

NextMailbox ==
    \/ \E s \in Uids, r \in Uids, c \in Contents, n \in Nonces : SendCall(s, r, c, n)
    \/ SendHasContact
    \/ SendCanSend
    \/ SendInsert
    \/ \E a \in Uids, b \in Uids : fetchMessage(a, b)
    \/ \E r \in Uids, ids \in IdArrays : deleteReceivedMessages(r, ids)
    \/ Return

SpecMailbox == InitMailbox /\ [][NextMailbox]_vars

\* sendMessage and the relay: the route emits new_message after a
\* successful send; connections join and leave channels.
NextRelay ==
    \/ \E s \in ExistingUsers, r \in ExistingUsers, c \in Contents, n \in Nonces :
          SendCall(s, r, c, n)
    \/ SendHasContact
    \/ SendCanSend
    \/ SendInsert
    \/ Push
    \/ RelayReturn
    \/ \E k \in RelayConns, u \in ExistingUsers : RelayJoin(k, u)
    \/ \E k \in RelayConns : RelayLeave(k)

SpecRelay == InitMailbox /\ [][NextRelay]_vars

\* The WebSocketService of one client, the events of its sockets and the
\* notifications the relay emits.
NextClient ==
    \/ \E u \in ClientUsers, t \in Tokens : connect(u, t)
    \/ disconnect
    \/ \E k \in 1..Len(sockets) : OnConnect(k)
    \/ \E k \in 1..Len(sockets) : OnConnectError(k)
    \/ \E k \in 1..Len(sockets) : OnDisconnect(k)
    \/ \E h \in Handlers : onNewMessage(h)
    \/ \E h \in Handlers : removeMessageHandler(h)
    \/ \E u \in ClientUsers \cup {NoUser} : SetStoredUser(u)
    \/ \E s \in ExistingUsers, r \in ClientUsers : RelayNotify(s, r, 1)
    \/ Settle

SpecClient == InitMailbox /\ [][NextClient]_vars

\* The ChatPanel of one client: its props change, the user scrolls up and
\* goes back, and the calls it awaits settle.
InitChatPanel ==
    /\ contacts = ContactPairs
    /\ blocks = {}
    /\ mailbox = {}
    /\ nextMid = 1
    /\ clock = 0
    /\ issued = {}
    /\ snd = Idle
    /\ resp = NoResp
    /\ InitWebSocket
    /\ \E isVisible \in BOOLEAN : InitPanel(isVisible)

NextPanel ==
    \/ Mount
    \/ \E isVisible \in BOOLEAN : WatchVisible(isVisible)
    \/ \E newContact \in PanelContacts : WatchContact(newContact)
    \/ loadMoreMessages
    \/ \E i \in 1..MaxLoads, resolved \in BOOLEAN : LoadSettles(i, resolved)
    \/ \E pages \in 0..MaxPages : initMessagePagination(pages)
    \/ goBack
    \/ removeContact
    \/ \E sender_uid \in ExistingUsers : HandleNewMessage(sender_uid)
    \/ \E u \in ClientUsers \cup {NoUser} : SetStoredUser(u)

SpecPanel == InitChatPanel /\ [][NextPanel]_vars

\* The local cache of one conversation under pulls and merges.
NextCache ==
    \/ \E b \in Batches : Pull(b)
    \/ MergePulled

SpecCache == InitChatPanel /\ [][NextCache]_vars

\* ========================================================================
\* Properties
\* ========================================================================
Pair(m) == {m.sender_uid, m.receiver_uid}

\* The sendMessage call in flight takes the step after its await p.
SendLeaves(p) == snd.pc = p /\ snd' # snd

\* sendMessage accepts the call and goes on to hasContactWith.
Accepted(s, r, c, n) ==
    /\ resp' = NoResp
    /\ snd' = [pc |-> "hasContactWith", sender_uid |-> s, receiver_uid |-> r,
               content |-> c, nonce |-> n]

SendError(statusCode, message) ==
    [op |-> "send", success |-> FALSE, statusCode |-> statusCode,
     message |-> message]

StorageFailure(r) ==
    r.op = "send" /\ ~r.success /\ r.statusCode = "INTERNAL_SERVER_ERROR"

NoBlock(a, b) == <<a, b>> \notin blocks /\ <<b, a>> \notin blocks

\* ------------------------------------------------------------------------
\* C1: for distinct existing users A and B that have a relationship record
\* and no block in either direction when sendMessage checks them, the call
\* passes every check, and its INSERT (unless the query itself throws, the
\* storage failure of the catch branch) adds exactly one row and returns it
\* with content, nonce, sender and receiver of the call and a mid greater
\* than every mid handed out for that pair before, deleted rows included.
C1_SendSucceeds ==
    [][
      /\ \A s \in ExistingUsers, r \in ExistingUsers, c \in Contents, n \in Nonces :
            (s # r /\ SendCall(s, r, c, n)) => Accepted(s, r, c, n)
      /\ (SendLeaves("hasContactWith") /\ Pair(snd) \in contacts)
            => (resp' = NoResp /\ snd' = [snd EXCEPT !.pc = "canSendMessage"])
      /\ (SendLeaves("canSendMessage") /\ Pair(snd) \in contacts
              /\ NoBlock(snd.sender_uid, snd.receiver_uid))
            => (resp' = NoResp /\ snd' = [snd EXCEPT !.pc = "insert"])
      /\ (SendLeaves("insert") /\ ~StorageFailure(resp'))
            => /\ resp'.op = "send"
               /\ resp'.success
               /\ resp'.data.content = snd.content
               /\ resp'.data.nonce = snd.nonce
               /\ resp'.data.sender_uid = snd.sender_uid
               /\ resp'.data.receiver_uid = snd.receiver_uid
               /\ resp'.data \notin mailbox
               /\ mailbox' = mailbox \cup {resp'.data}
               /\ \A i \in issued :
                      {i.sender_uid, i.receiver_uid} = Pair(snd)
                          => i.mid < resp'.data.mid
    ]_vars

\* A send has succeeded for a pair whose earlier message was deleted.
C1_Witness ==
    /\ resp.op = "send"
    /\ resp.success
    /\ \E i \in issued :
          /\ {i.sender_uid, i.receiver_uid} = Pair(resp.data)
          /\ i.mid < resp.data.mid
          /\ \A m \in mailbox : m.mid # i.mid

\* ------------------------------------------------------------------------
\* C2: a row is inserted only if, at the moment of the insert, sender and
\* receiver have a relationship record and neither has blocked the other.
C2_InsertOnlyWhenPermitted ==
    [][\A m \in mailbox' \ mailbox :
            /\ Pair(m) \in contacts
            /\ NoBlock(m.sender_uid, m.receiver_uid)]_vars

\* ------------------------------------------------------------------------
\* C3: when the sender alone has blocked the receiver, the permission step
\* of sendMessage ends the call as forbidden with the you-blocked message;
\* when the receiver alone has blocked the sender, with the user-blocked
\* message; the call had passed hasContactWith, and no row is inserted.
C3_BlockedSendFails ==
    [][
      /\ (SendLeaves("hasContactWith")
              /\ ~NoBlock(snd.sender_uid, snd.receiver_uid))
            => snd' = [snd EXCEPT !.pc = "canSendMessage"]
      /\ (SendLeaves("canSendMessage")
              /\ <<snd.sender_uid, snd.receiver_uid>> \in blocks
              /\ <<snd.receiver_uid, snd.sender_uid>> \notin blocks)
            => /\ resp' = SendError("FORBIDDEN",
                              "Cannot message, you have blocked this user")
               /\ snd' = Idle
               /\ mailbox' = mailbox
      /\ (SendLeaves("canSendMessage")
              /\ <<snd.receiver_uid, snd.sender_uid>> \in blocks
              /\ <<snd.sender_uid, snd.receiver_uid>> \notin blocks)
            => /\ resp' = SendError("FORBIDDEN",
                              "Cannot message user, user has blocked you")
               /\ snd' = Idle
               /\ mailbox' = mailbox
    ]_vars

\* A send was refused as user-blocked while only one side holds a block.
C3_Witness ==
    /\ resp = SendError("FORBIDDEN", "Cannot message user, user has blocked you")
    /\ \E a \in ExistingUsers, b \in ExistingUsers :
          <<a, b>> \in blocks /\ <<b, a>> \notin blocks

\* ------------------------------------------------------------------------
\* C4 as stated: sendMessage(A, A, ...) fails with reason self for every A,
\* invalid and unknown ids included.
C4_SelfSendAlwaysSelf ==
    [][\A a \in Uids, c \in Contents, n \in Nonces :
            SendCall(a, a, c, n)
                => resp' = SendError("BAD_REQUEST",
                                     "Cannot send message to self")]_vars

\* C4 as amended: sendMessage(A, A, ...) never inserts a row and never gets
\* past its first checks; it fails with reason self when A is an existing
\* user, whatever the relationships and blocks, with Invalid UID when A is
\* no valid id, and with not-found when A is valid but unknown.
C4_SelfSendRejected ==
    [][\A a \in Uids, c \in Contents, n \in Nonces :
            SendCall(a, a, c, n)
                => /\ mailbox' = mailbox
                   /\ snd' = Idle
                   /\ resp' = IF a \in ExistingUsers
                              THEN SendError("BAD_REQUEST",
                                             "Cannot send message to self")
                              ELSE IF a <= 0
                              THEN SendError("BAD_REQUEST", "Invalid UID")
                              ELSE SendError("NOT_FOUND", "User not found")]_vars

\* A self-send was refused while a block is in place.
C4_Witness ==
    /\ resp = SendError("BAD_REQUEST", "Cannot send message to self")
    /\ blocks # {}

\* ------------------------------------------------------------------------
\* C5: a call for distinct existing users is taken to the hasContactWith
\* check, and when they have no relationship record there it ends as
\* forbidden with the not-contacts message and inserts no row.
C5_NotContactsFails ==
    [][
      /\ \A s \in ExistingUsers, r \in ExistingUsers, c \in Contents, n \in Nonces :
            (s # r /\ SendCall(s, r, c, n)) => Accepted(s, r, c, n)
      /\ (SendLeaves("hasContactWith") /\ Pair(snd) \notin contacts)
            => /\ resp' = SendError("FORBIDDEN", "Users are not contacts")
               /\ snd' = Idle
               /\ mailbox' = mailbox
    ]_vars

\* A send between users without a relationship record was refused.
C5_Witness ==
    /\ resp = SendError("FORBIDDEN", "Users are not contacts")
    /\ contacts # ContactPairs

\* ------------------------------------------------------------------------
\* C6: in every mailbox state, for distinct existing users A and B, every
\* result fetchMessage(A, B) can return equals every result
\* fetchMessage(B, A) can return: same messages, same order.
C6_FetchSymmetric ==
    \A a \in ExistingUsers, b \in ExistingUsers :
        a # b =>
            \A x \in FetchQuery(mailbox, a, b), y \in FetchQuery(mailbox, b, a) :
                x = y

\* ------------------------------------------------------------------------
\* C7: the sequence fetchMessage returns is sorted by timestamp ascending,
\* and messages of equal timestamp come in ascending mid order.
C7_FetchSortedTiesById ==
    (resp.op = "fetch" /\ resp.success) =>
        \A i \in 1..Len(resp.data), j \in 1..Len(resp.data) :
            i < j =>
                \/ resp.data[i].timestamp < resp.data[j].timestamp
                \/ /\ resp.data[i].timestamp = resp.data[j].timestamp
                   /\ resp.data[i].mid < resp.data[j].mid

\* ------------------------------------------------------------------------
\* C8: a successful fetchMessage(A, B) returns, each once, exactly the rows
\* of the mailbox whose sender and receiver are A and B in either
\* direction; no returned row has a third user as sender or receiver.
C8_FetchExactlyPair ==
    [][
      (resp'.op = "fetch" /\ resp'.success) =>
          \A a \in Uids, b \in Uids :
              fetchMessage(a, b) =>
                  /\ {resp'.data[i] : i \in 1..Len(resp'.data)}
                        = {m \in mailbox : Pair(m) = {a, b}}
                  /\ Len(resp'.data) = Cardinality({m \in mailbox : Pair(m) = {a, b}})
                  /\ \A i \in 1..Len(resp'.data) :
                        /\ resp'.data[i].sender_uid \in {a, b}
                        /\ resp'.data[i].receiver_uid \in {a, b}
    ]_vars

\* A fetch returned rows while the mailbox also holds a row of another pair.
C8_Witness ==
    /\ resp.op = "fetch"
    /\ resp.success
    /\ Len(resp.data) >= 1
    /\ \E m \in mailbox : Pair(m) # Pair(resp.data[1])

\* ------------------------------------------------------------------------
\* C9: a successful deleteReceivedMessages(B, ids) removes exactly the rows
\* whose mid is an entry of ids and whose receiver is B, reports their
\* number, and the same call made again would remove nothing.
C9_DeleteExactlyRequested ==
    [][
      (resp'.op = "delete" /\ resp'.success) =>
          LET B == resp'.receiver_uid
              ids == resp'.messageIds.items
              named == {m \in mailbox :
                          /\ m.receiver_uid = B
                          /\ \E i \in 1..Len(ids) : ids[i] = JsNumber(m.mid)}
          IN /\ mailbox' = mailbox \ named
             /\ resp'.deleted = Cardinality(named)
             /\ DeleteWhere(mailbox', B, validMessageIds(ids)) = {}
    ]_vars

\* ------------------------------------------------------------------------
\* C10: a row leaves the mailbox only in a deleteReceivedMessages(X, ids)
\* call whose X is the row's receiver; the sender of a message cannot
\* delete it.
C10_DeleteOnlyOwnRows ==
    [][\A m \in mailbox \ mailbox' :
            resp'.op = "delete" /\ m.receiver_uid = resp'.receiver_uid]_vars

\* The sender of a stored message named it in a delete and it is still there.
C10_Witness ==
    /\ resp.op = "delete"
    /\ resp.success
    /\ \E m \in mailbox :
          /\ m.sender_uid = resp.receiver_uid
          /\ \E i \in 1..Len(resp.messageIds.items) :
                resp.messageIds.items[i] = JsNumber(m.mid)

\* ------------------------------------------------------------------------
DeleteError(r, statusCode, message) ==
    /\ r.op = "delete"
    /\ ~r.success
    /\ r.statusCode = statusCode
    /\ r.message = message

\* No entry of the array has a leading integer.
NoNumericEntry(ids) ==
    \A i \in 1..Len(ids) : ids[i].kind \in {"null", "undefined", "text"}

\* C11 as stated: for a valid receiver and a non-empty id array,
\* deleteReceivedMessages returns a success result (a query that throws,
\* the storage failure of the catch branch, set aside), arrays made only
\* of null or non-numeric entries included.
C11_DeleteNonEmptySucceeds ==
    [][
      (/\ resp'.op = "delete"
       /\ resp'.receiver_uid > 0
       /\ resp'.messageIds.isArray
       /\ Len(resp'.messageIds.items) > 0
       /\ resp'.statusCode # "INTERNAL_SERVER_ERROR")
          => resp'.success
    ]_vars

\* C11 as amended: deleteReceivedMessages answers BAD_REQUEST 'Invalid user
\* ID' for a receiver that is no valid id, 'No message IDs provided' for an
\* absent or empty array, and 'No valid message IDs provided' for an array
\* none of whose entries has a leading integer (null or text only); in
\* these cases no row is removed.  For every other call, whether or not
\* the ids are known or belong to the receiver and whether or not the
\* receiver is a row of users, it returns success with a count, unless the
\* DELETE itself throws.
C11_DeleteErrors ==
    [][
      resp'.op = "delete" =>
          LET B == resp'.receiver_uid
              ids == resp'.messageIds
          IN IF B <= 0
             THEN DeleteError(resp', "BAD_REQUEST", "Invalid user ID")
                  /\ mailbox' = mailbox
             ELSE IF ~ids.isArray \/ Len(ids.items) = 0
             THEN DeleteError(resp', "BAD_REQUEST", "No message IDs provided")
                  /\ mailbox' = mailbox
             ELSE IF NoNumericEntry(ids.items)
             THEN DeleteError(resp', "BAD_REQUEST", "No valid message IDs provided")
                  /\ mailbox' = mailbox
             ELSE \/ resp'.success /\ resp'.deleted \in 0..Cardinality(mailbox)
                  \/ DeleteError(resp', "INTERNAL_SERVER_ERROR",
                                 "Failed to delete received messages")
                     /\ mailbox' = mailbox
    ]_vars

\* A valid receiver named a non-empty array of entries that are no
\* numbers and was answered with an error while the mailbox holds a row.
C11_Witness ==
    /\ DeleteError(resp, "BAD_REQUEST", "No valid message IDs provided")
    /\ resp.receiver_uid \in ExistingUsers
    /\ Len(resp.messageIds.items) > 0
    /\ mailbox # {}

\* ------------------------------------------------------------------------
\* C12: a row is removed by deleteReceivedMessages only if its mid is
\* itself an entry of the requested array; an entry with a fraction or
\* with text after its digits removes no row.
C12_DeleteOnlyListedIds ==
    [][\A m \in mailbox \ mailbox' :
            /\ resp'.op = "delete"
            /\ \E i \in 1..Len(resp'.messageIds.items) :
                  resp'.messageIds.items[i] = JsNumber(m.mid)]_vars

\* ------------------------------------------------------------------------
\* C13: a row of the mailbox is returned by every successful fetch of its
\* pair, and it leaves the mailbox only in a deleteReceivedMessages call of
\* its receiver whose id array has the row's mid as an entry; sends,
\* fetches and deletes by other users leave it in place.
C13_StaysUntilReceiverNamesIt ==
    [][
      /\ \A m \in mailbox \ mailbox' :
            /\ resp'.op = "delete"
            /\ resp'.receiver_uid = m.receiver_uid
            /\ \E i \in 1..Len(resp'.messageIds.items) :
                  resp'.messageIds.items[i] = JsNumber(m.mid)
      /\ (resp'.op = "fetch" /\ resp'.success) =>
            \A a \in Uids, b \in Uids :
                fetchMessage(a, b) =>
                    \A m \in mailbox :
                        Pair(m) = {a, b} =>
                            \E k \in 1..Len(resp'.data) : resp'.data[k] = m
    ]_vars

\* ------------------------------------------------------------------------
\* Mids that were handed out and whose row is no longer in the mailbox.
AcknowledgedMids ==
    {i.mid : i \in issued} \ {m.mid : m \in mailbox}

\* C14: a deleteReceivedMessages that reports deleted >= 1 has removed
\* that many rows, each received by the caller; a mid whose row was
\* removed never comes back into the mailbox, whatever sends follow; no
\* successful fetchMessage returns a row with such a mid, and a fetch of a
\* pair with no row left in the mailbox returns the empty sequence.
C14_AcknowledgedNeverFetched ==
    [][
      /\ (resp'.op = "delete" /\ resp'.success /\ resp'.deleted >= 1) =>
            /\ Cardinality(mailbox \ mailbox') = resp'.deleted
            /\ \A m \in mailbox \ mailbox' :
                  /\ m.receiver_uid = resp'.receiver_uid
                  /\ m.mid \in AcknowledgedMids'
      /\ AcknowledgedMids \subseteq AcknowledgedMids'
      /\ (resp'.op = "fetch" /\ resp'.success) =>
            /\ \A k \in 1..Len(resp'.data) :
                  resp'.data[k].mid \notin AcknowledgedMids'
            /\ \A a \in Uids, b \in Uids :
                  (fetchMessage(a, b) /\ ~\E m \in mailbox : Pair(m) = {a, b})
                      => resp'.data = <<>>
    ]_vars

\* A fetch returned a later message of a pair whose earlier message the
\* receiver has acknowledged.
C14_Witness ==
    /\ resp.op = "fetch"
    /\ resp.success
    /\ Len(resp.data) >= 1
    /\ \E i \in issued :
          /\ i.mid \in AcknowledgedMids
          /\ {i.sender_uid, i.receiver_uid} = Pair(resp.data[1])
          /\ i.mid < resp.data[1].mid

\* ------------------------------------------------------------------------
\* Sockets that are connected or on their way to a connection.
ActiveSockets ==
    {k \in 1..Len(sockets) : sockets[k].status \in {"opening", "open", "retrying"}}

\* C15: at most one socket of the client is active at any time; a socket
\* that is active is the one held in this.socket, so that a connect()
\* never leaves an earlier socket alive beside the new one.
C15_OneActiveSocket ==
    /\ Cardinality(ActiveSockets) <= 1
    /\ \A k \in ActiveSockets : socket = k

\* ------------------------------------------------------------------------
\* Number of calls of handler h made for the notification being handled.
HandlerCalls(h) ==
    Cardinality({i \in 1..Len(handled) : handled[i].handler = h})

\* C16: one new_message notification emitted by the relay is handed to
\* each handler at most once, whatever connect() calls, socket events and
\* handler registrations came before.
C16_HandedAtMostOnce ==
    \A h \in Handlers : HandlerCalls(h) <= 1

\* ------------------------------------------------------------------------
\* C17: a new_message whose sender is the local user (the user kept by
\* storageService) is passed to no handler: while such a notification is
\* handled no handler call is made, and no handler call ever carries a
\* message sent by the local user.
C17_OwnMessagesSkipped ==
    /\ (pushed # NoPush /\ pushed.message.sender_uid = storedUser)
          => handled = <<>>
    /\ \A i \in 1..Len(handled) : handled[i].message.sender_uid # storedUser

\* A notification of a message sent by the local user reached a connected
\* socket of the client while a handler is registered.
C17_Witness ==
    /\ pushed # NoPush
    /\ pushed.to # {}
    /\ storedUser # NoUser
    /\ pushed.message.sender_uid = storedUser
    /\ messageHandlers # <<>>
    /\ handled = <<>>

\* ------------------------------------------------------------------------
\* C18: a notification is emitted only after a successful send and goes to
\* the connections that are members of the receiver's channel at that
\* moment and to no other; connections in the sender's or a third user's
\* channel alone do not get it.  The emit changes nothing at the relay, so
\* with no member in the receiver's channel nobody gets it, and a
\* connection that joins later gets nothing.
C18_PushToReceiverOnly ==
    [][
      /\ (pushed' # pushed /\ pushed' # NoPush) =>
            /\ resp.op = "send" /\ resp.success
            /\ resp' = resp
            /\ pushed'.message.mid = resp.data.mid
            /\ pushed'.room = resp.data.receiver_uid
            /\ \A k \in RelayConns :
                  k \in pushed'.to <=> <<k, resp.data.receiver_uid>> \in rooms
            /\ rooms' = rooms
      /\ (\E k \in RelayConns, u \in ExistingUsers : RelayJoin(k, u))
            => pushed' = NoPush
    ]_vars

\* A notification is on its way to a member of the receiver's channel while
\* a connection that is in the sender's channel, and one in the third
\* user's channel, do not get it.
C18_Witness ==
    /\ pushed # NoPush
    /\ pushed.to # {}
    /\ \E k \in RoomMembers(pushed.message.sender_uid) : k \notin pushed.to
    /\ \E u \in ExistingUsers :
          /\ u \notin Pair(pushed.message)
          /\ RoomMembers(u) # {}

\* ------------------------------------------------------------------------
\* C19: at every 'connect' event of a socket of the client, first
\* connection or reconnection, join is emitted for the identity the socket
\* was opened for, and the socket is a member of that channel afterwards.
C19_JoinOnEveryConnect ==
    [][\A k \in 1..Len(sockets) :
            OnConnect(k) => <<k, sockets[k].userId>> \in rooms']_vars

\* ------------------------------------------------------------------------
\* C20: no two loadPaginatedMessages calls for the same conversation are
\* in flight at the same time, whether issued by loadMessages (page 0) or
\* by loadMoreMessages (page n+1).
C20_PageLoadsSerialized ==
    \A i \in 1..Len(inflight), j \in 1..Len(inflight) :
        i # j => inflight[i].contact # inflight[j].contact

\* ------------------------------------------------------------------------
\* C24: a row of the mailbox keeps its mid, sender, receiver, content,
\* nonce and timestamp for as long as it is stored: a step never leaves a
\* row with the mid of a stored row and other fields, no two stored rows
\* share a mid, and every stored row has a sender other than its receiver.
C24_StoredMessageImmutable ==
    [][
      /\ \A m \in mailbox, n \in mailbox' : m.mid = n.mid => m = n
      /\ \A m \in mailbox', n \in mailbox' : m.mid = n.mid => m = n
      /\ \A m \in mailbox' : m.sender_uid # m.receiver_uid
    ]_vars

\* A stored row is still in the mailbox after a later send and a
\* successful delete that removed another row.
C24_Witness ==
    /\ resp.op = "delete"
    /\ resp.success
    /\ resp.deleted >= 1
    /\ mailbox # {}

\* ------------------------------------------------------------------------
\* C26: when sender and receiver have each blocked the other, the
\* permission step of sendMessage ends the call as forbidden with the
\* you-blocked message and inserts no row.
C26_MutualBlockYouBlocked ==
    [][
      (SendLeaves("canSendMessage")
          /\ <<snd.sender_uid, snd.receiver_uid>> \in blocks
          /\ <<snd.receiver_uid, snd.sender_uid>> \in blocks)
        => /\ resp' = SendError("FORBIDDEN",
                                "Cannot message, you have blocked this user")
           /\ snd' = Idle
           /\ mailbox' = mailbox
    ]_vars

\* A send was refused as you-blocked while both sides of a pair hold a
\* block.
C26_Witness ==
    /\ resp = SendError("FORBIDDEN", "Cannot message, you have blocked this user")
    /\ \E a \in ExistingUsers, b \in ExistingUsers :
          <<a, b>> \in blocks /\ <<b, a>> \in blocks

\* ------------------------------------------------------------------------
\* The fixed message of the catch branch of each operation.
CatchMessage(op) ==
    IF op = "send" THEN "Failed to send message."
    ELSE IF op = "fetch" THEN "Failed to fetch messages."
    ELSE "Failed to delete received messages"

C28_FetchErrorsLikeSend ==
    [][
      (resp = NoResp /\ resp'.op = "fetch") =>
      \A a \in Uids, b \in Uids :
          fetchMessage(a, b) =>
              IF a <= 0 \/ b <= 0 \/ a \notin ExistingUsers
                 \/ b \notin ExistingUsers \/ a = b
              THEN /\ ~resp'.success
                   /\ resp'.op = "fetch"
                   /\ resp'.statusCode = SendArgCheck(a, b).statusCode
                   /\ resp'.statusCode =
                         IF a <= 0 \/ b <= 0 THEN "BAD_REQUEST"
                         ELSE IF a \notin ExistingUsers \/ b \notin ExistingUsers
                         THEN "NOT_FOUND"
                         ELSE "BAD_REQUEST"
              ELSE \/ /\ resp'.success
                      /\ {resp'.data[i] : i \in 1..Len(resp'.data)}
                            = {m \in mailbox : Pair(m) = {a, b}}
                   \/ /\ ~resp'.success
                      /\ resp'.statusCode = "INTERNAL_SERVER_ERROR"
    ]_vars

\* A fetch returned the messages of a pair one of whom has blocked the
\* other.
C28_Witness ==
    /\ resp.op = "fetch"
    /\ resp.success
    /\ Len(resp.data) >= 1
    /\ \/ <<resp.data[1].sender_uid, resp.data[1].receiver_uid>> \in blocks
       \/ <<resp.data[1].receiver_uid, resp.data[1].sender_uid>> \in blocks

\* ------------------------------------------------------------------------
\* C29: sendMessage reports the first failing check in the order invalid
\* id (BAD_REQUEST), unknown user (NOT_FOUND), self-send (BAD_REQUEST),
\* not contacts (FORBIDDEN), block (FORBIDDEN): the call is answered at
\* once for the first three, an unknown user gives NOT_FOUND whether or
\* not a relationship record exists, and a call that passes them is
\* refused at the contact check before the blocks are looked at.
C29_FirstFailingCheck ==
    [][
      /\ (snd.pc = "idle" /\ resp = NoResp /\ (snd' # snd \/ resp'.op = "send")) =>
          \A s \in Uids, r \in Uids, c \in Contents, n \in Nonces :
            SendCall(s, r, c, n) =>
                IF s <= 0 \/ r <= 0
                THEN resp' = SendError("BAD_REQUEST", "Invalid UID")
                ELSE IF s \notin ExistingUsers \/ r \notin ExistingUsers
                THEN resp' = SendError("NOT_FOUND", "User not found")
                ELSE IF s = r
                THEN resp' = SendError("BAD_REQUEST", "Cannot send message to self")
                ELSE Accepted(s, r, c, n)
      /\ (SendLeaves("hasContactWith") /\ Pair(snd) \notin contacts)
            => resp' = SendError("FORBIDDEN", "Users are not contacts")
      /\ (SendLeaves("canSendMessage") /\ resp' # NoResp)
            => resp'.statusCode = "FORBIDDEN"
      /\ (resp' # NoResp /\ resp'.op = "send" /\ ~resp'.success
            /\ resp'.statusCode = "FORBIDDEN")
            => snd.pc \in {"hasContactWith", "canSendMessage"}
    ]_vars

\* A send naming a user that does not exist, and so has no relationship
\* record either, was answered not-found.
C29_Witness ==
    /\ resp = SendError("NOT_FOUND", "User not found")
    /\ contacts # {}

InitialLoadPending ==
    \E i \in 1..Len(inflight) :
        inflight[i].fn = "loadMessages" /\ inflight[i].contact = contact

C22_CloseCompacts ==
    [][(showChat /\ ~showChat')
          => /\ storedUser # NoUser
             /\ compacted' = [owner |-> storedUser, peer |-> contact]]_vars

C25_MergeIdempotent ==
    [][(merges >= 1 /\ merges' = merges + 1) => cache' = cache]_vars

\* A batch that overlaps the cache and brings a new message has been merged
\* twice.
C25_Witness ==
    /\ merges = 2
    /\ Len(pulled) >= 2
    /\ Len(cache) > Len(pulled)
    /\ cache[Len(cache)] = pulled[Len(pulled)]

\* C31: connect(v, token) called while the service holds a socket, connected
\* or still connecting, for another user u closes that socket and makes v
\* the current user: no such call returns with the service still bound to u.
C31_ConnectOtherUserRebinds ==
    \A v \in ClientUsers, token \in Tokens :
        (socket # NoSocket /\ currentUserId # NoUser /\ currentUserId # v)
            => ~ENABLED (/\ connect(v, token)
                         /\ ~(/\ currentUserId' = v
                              /\ sockets'[socket].status = "closed"))

\* C32: every join the client has emitted on a socket, delivered to the
\* relay or still waiting in the socket's buffer, names the user whose
\* connect() call opened that socket.
C32_JoinOnOwnSocket ==
    /\ \A x \in rooms : sockets[x[1]].userId = x[2]
    /\ \A k \in 1..Len(sockets) :
          \A u \in sockets[k].sendBuffer : u = sockets[k].userId

\* C33: a call that loadMoreMessages issues is for page currentPage + 1 of
\* the open contact, with 1 <= currentPage + 1 <= totalPages - 1; on the
\* last page loadMoreMessages issues nothing; and when its call settles,
\* resolved or thrown, isLoadingMoreMessages is false again.
C33_LoadMoreBounds ==
    [][/\ (loadMoreMessages /\ inflight' # inflight)
            => /\ inflight' = Append(inflight,
                                  PageLoad("loadMoreMessages", contact,
                                           currentMessagePage + 1))
               /\ 1 <= currentMessagePage + 1
               /\ currentMessagePage + 1 <= totalMessagePages - 1
       /\ (loadMoreMessages /\ currentMessagePage >= totalMessagePages - 1)
            => inflight' = inflight
       /\ \A i \in 1..Len(inflight), resolved \in BOOLEAN :
             (LoadSettles(i, resolved) /\ inflight[i].fn = "loadMoreMessages")
                => ~isLoadingMoreMessages']_vars

\* A call of loadMoreMessages, the only source of a page above 0, has
\* resolved and the flag is down.
C33_Witness ==
    /\ currentMessagePage >= 1
    /\ inflight = <<>>
    /\ ~isLoadingMoreMessages

\* C34: removeMessageHandler(h) takes every registration of h out of the
\* list, a notification is handed to handlers of the list only, so h is not
\* called again; and disconnect() leaves socket and currentUserId null and
\* isConnecting false without touching the list of handlers.
C34_HandlersRemovedAndKept ==
    [][/\ \A h \in Handlers :
             removeMessageHandler(h)
                => \A i \in 1..Len(messageHandlers') : messageHandlers'[i] # h
       /\ handled' # handled
             => \A i \in 1..Len(handled') :
                    \E j \in 1..Len(messageHandlers) :
                        messageHandlers[j] = handled'[i].handler
       /\ disconnect
             => /\ socket' = NoSocket
                /\ currentUserId' = NoUser
                /\ ~isConnecting'
                /\ messageHandlers' = messageHandlers]_vars

\* A handler registered before a disconnect is called for a notification
\* that arrives on the socket of a later connect.
C34_Witness ==
    /\ Len(sockets) = 2
    /\ sockets[1].status = "closed"
    /\ socket = 2
    /\ handled # <<>>
    /\ \A i \in 1..Len(handled) : handled[i].socket = 2

\* C35: a fetchMessage call, successful or not, leaves the set of stored
\* rows as it was.
C35_FetchLeavesMailbox ==
    [][/\ \A a \in Uids, b \in Uids : fetchMessage(a, b) => mailbox' = mailbox
       /\ (resp' # resp /\ resp'.op = "fetch") => mailbox' = mailbox]_vars

\* A fetch has returned rows and every one of them is still stored.
C35_Witness ==
    /\ resp.op = "fetch"
    /\ resp.success
    /\ Len(resp.data) >= 1
    /\ \A i \in 1..Len(resp.data) : resp.data[i] \in mailbox

\* C36: while isConnecting is set the service holds a socket, and after
\* each connect, connect_error and disconnect event of a socket
\* isConnecting is false.
C36_ConnectingFlag ==
    /\ [](isConnecting => socket # NoSocket)
    /\ [][\A k \in 1..Len(sockets) :
              (OnConnect(k) \/ OnConnectError(k) \/ OnDisconnect(k))
                 => ~isConnecting']_vars

\* The connection attempt of the only socket has failed and the flag is
\* down, so the next connect() is not ignored.
C36_Witness ==
    /\ Len(sockets) = 1
    /\ socket = 1
    /\ sockets[1].status \in {"retrying", "closed"}
    /\ ~isConnecting
    /\ \E u \in ClientUsers, token \in Tokens :
          ENABLED (connect(u, token) /\ Len(sockets') = 2)

====
